---------------------------- MODULE Spec2Model ----------------------------
(* A model of the Desktop-Schedule reminder application: the App component  *)
(* (task store, local-storage load/save effects, add / toggle / delete),    *)
(* the useTaskScheduler hook (the interval effect keyed on tasks and        *)
(* checkTasks), the categorizeTask gateway and the TaskForm submit handler. *)
(*                                                                          *)
(* Time is the wall clock in milliseconds since the epoch, local time zone  *)
(* UTC.  A Date is its millisecond value, NaN standing for an Invalid Date. *)
EXTENDS Integers, Sequences, FiniteSets, TLC

VARIABLES
    now,            \* the wall clock, ms
    pc,             \* "closed" | "hydrating" | "running": the page's life cycle
    tasks,          \* App state: useState<Task[]>
    queued,         \* the setTasks(JSON.parse(saved)) of the load effect, not yet rendered
    storage,        \* localStorage[STORAGE_KEY]
    memAtClose,     \* history: tasks when the previous process ended, until hydrated
    isAdding,       \* App state: useState(false)
    pending,        \* the handleAddTask call awaiting categorizeTask, or NoAdd
    nextId,         \* crypto.randomUUID(): ids are handed out in order
    flips,          \* history: per id in the collection, the toggleTask calls mod 2
    removed,        \* history: the ids deleteTask has removed
    gone,           \* history: the tasks deleteTask has removed, as they were
    captured,       \* the tasks binding of the render whose interval effect is live
    nextFire,       \* when the setInterval timer is due next
    sinceScan,      \* history: ms since the last scan (or mount) of this process, up to GapCap
    notifiedTasks,  \* useRef<Set<string>>: the notification keys
    permission,     \* Notification.permission, or "unsupported"
    asked,          \* a Notification.requestPermission() prompt is open
    shown,          \* history: every new Notification(...) of this process
    skipped,        \* history: the occurrences this process recorded without a Notification
    justScanned,    \* history: the last step was a scan
    justAdded,      \* history: "no", or the last step appended a task: "same" | "changed"
                    \* as the collection was, or was not, the one of the submission
    awake           \* Elapse steps taken

vars == <<now, pc, tasks, queued, storage, memAtClose, isAdding,
          pending, nextId, flips, removed, gone, captured, nextFire, sinceScan, notifiedTasks, permission,
          asked, shown, skipped, justScanned, justAdded, awake>>

----------------------------------------------------------------------------
(* Bounds of the model *)

MaxTasks == 1       \* ids handed out by randomUUID
MaxAwake == 5       \* Elapse steps
MaxAddAwake == 2    \* tasks are added within this many Elapse steps

----------------------------------------------------------------------------
(* Program constants *)

WindowMs == 60000
PollPeriod == 1000

SecondMs == 1000
MinuteMs == 60 * SecondMs
HourMs == 60 * MinuteMs
DayMs == 24 * HourMs
WeekMs == 7 * DayMs

\* The clock moves in steps of half a timer period.
Granule == PollPeriod \div 2

\* Wednesday 1970-01-14 09:00:00.000, the instant the form's reminders are set for.
Due == 13 * DayMs + 9 * HourMs

Min(a, b) == IF a <= b THEN a ELSE b

\* The time value of an Invalid Date.
NaN == 0 - 1

\* sinceScan is counted up to here: anything longer is 'more than a period'.
GapCap == PollPeriod + Granule

----------------------------------------------------------------------------
(* Date *)

\* Date.prototype.getDay / getHours / getMinutes (1970-01-01 was a Thursday).
getDay(ms) == ((ms \div DayMs) + 4) % 7
getHours(ms) == (ms % DayMs) \div HourMs
getMinutes(ms) == (ms % HourMs) \div MinuteMs

\* Date.prototype.toISOString: the date and the time of day, field by field.
toISOString(ms) ==
    [day |-> ms \div DayMs, hh |-> getHours(ms), mm |-> getMinutes(ms),
     ss |-> (ms % MinuteMs) \div SecondMs, sss |-> ms % SecondMs]

\* new Date(isoString).getTime()
DateParse(iso) ==
    iso.day * DayMs + iso.hh * HourMs + iso.mm * MinuteMs + iso.ss * SecondMs + iso.sss

----------------------------------------------------------------------------
(* Task, and its JSON text *)

Categories == {"RESEARCH", "ADMIN", "PERSONAL", "OTHER"}

\* JSON.stringify of one task: the members in declaration order, each value
\* tagged with its JSON type.
StringifyTask(t) ==
    << <<"id", <<"string", t.id>> >>,
       <<"content", <<"string", t.content>> >>,
       <<"remindTime", <<"string", t.remindTime>> >>,
       <<"repeatDays", <<"array", [i \in 1..Len(t.repeatDays) |-> <<"number", t.repeatDays[i]>>]>> >>,
       <<"category", <<"string", t.category>> >>,
       <<"isActive", <<"boolean", t.isActive>> >>,
       <<"isCompleted", <<"boolean", t.isCompleted>> >>,
       <<"createdAt", <<"number", t.createdAt>> >> >>

Stringify(ts) == [kind |-> "text", items |-> [i \in 1..Len(ts) |-> StringifyTask(ts[i])]]

\* The value of member k of a parsed object.
Member(obj, k) ==
    LET i == CHOOSE j \in 1..Len(obj) : obj[j][1] = k
    IN  obj[i][2][2]

ParseTask(obj) ==
    [id |-> Member(obj, "id"),
     content |-> Member(obj, "content"),
     remindTime |-> Member(obj, "remindTime"),
     repeatDays |-> LET a == Member(obj, "repeatDays")
                    IN  [i \in 1..Len(a) |-> a[i][2]],
     category |-> Member(obj, "category"),
     isActive |-> Member(obj, "isActive"),
     isCompleted |-> Member(obj, "isCompleted"),
     createdAt |-> Member(obj, "createdAt")]

\* JSON.parse of a text that parses.
Parse(text) == [i \in 1..Len(text.items) |-> ParseTask(text.items[i])]

Missing == [kind |-> "missing"]
Corrupt == [kind |-> "corrupt"]

Ids(ts) == {ts[i].id : i \in 1..Len(ts)}

----------------------------------------------------------------------------
(* useTaskScheduler: checkTasks *)

\* Mutant: the isActive half of the guard is left out.
IsCandidate_IgnoresActive(task) == ~task.isCompleted

\* The guard at the head of the forEach callback.
IsCandidate(task) == task.isActive /\ ~task.isCompleted

\* Mutant: the window is closed at its far end.
InWindow_Closed(timeDiff) == timeDiff <= 0 /\ timeDiff >= -WindowMs

\* timeDiff <= 0 && timeDiff > -60000
InWindow(timeDiff) == timeDiff <= 0 /\ timeDiff > -WindowMs

\* `${task.id}-${taskTime.getTime()}`
NotificationKey(task, taskTime) == <<task.id, taskTime>>

\* Mutant: a recurring task is taken as recurring today whatever the weekday.
shouldNotify_AnyDay(task, taskTime, t) ==
    IF Len(task.repeatDays) = 0 THEN TRUE
    ELSE getHours(taskTime) = getHours(t) /\ getMinutes(taskTime) = getMinutes(t)

\* isOneTime, isRecurringToday and the HH:MM comparison.
shouldNotify(task, taskTime, t) ==
    LET currentDay == getDay(t)
        isRecurringToday ==
            Len(task.repeatDays) > 0
            /\ \E i \in 1..Len(task.repeatDays) : task.repeatDays[i] = currentDay
        isOneTime == Len(task.repeatDays) = 0
    IN  IF isOneTime THEN TRUE
        ELSE IF isRecurringToday
             THEN getHours(taskTime) = getHours(t) /\ getMinutes(taskTime) = getMinutes(t)
             ELSE FALSE

\* 'Notification' in window && Notification.permission === 'granted'
CanNotify(perm) == perm = "granted"

\* The Notification constructed for a task, tagged with the task and the poll.
Shown(task, t) == [id |-> task.id, body |-> task.content, at |-> t]

\* Mutant: the key is never recorded.
MarkNotified_Forgets(notified, key, perm) == notified

\* Mutant: the key is recorded only when the notification was constructed.
MarkNotified_OnlyIfShown(notified, key, perm) ==
    IF perm = "granted" THEN notified \cup {key} ELSE notified

\* notifiedTasks.current.add(notificationKey): outside the permission test.
MarkNotified(notified, key, perm) == notified \cup {key}

\* The body of the forEach callback; acc is [notified, shown].
checkTask(task, t, perm, acc) ==
    IF ~IsCandidate(task) THEN acc
    ELSE LET taskTime == DateParse(task.remindTime)
             timeDiff == taskTime - t
             key == NotificationKey(task, taskTime)
         IN  IF InWindow(timeDiff) /\ key \notin acc.notified
                /\ shouldNotify(task, taskTime, t)
             THEN [notified |-> MarkNotified(acc.notified, key, perm),
                   shown |-> IF CanNotify(perm)
                             THEN acc.shown \cup {Shown(task, t)}
                             ELSE acc.shown]
             ELSE acc

RECURSIVE forEachTask(_, _, _, _, _)
forEachTask(ts, i, t, perm, acc) ==
    IF i > Len(ts) THEN acc
    ELSE forEachTask(ts, i + 1, t, perm, checkTask(ts[i], t, perm, acc))

checkTasks(ts, t, perm, acc) == forEachTask(ts, 1, t, perm, acc)

----------------------------------------------------------------------------
(* services/gemini: categorizeTask *)

\* What ai.models.generateContent can come back with: a thrown error, or a
\* response whose text is empty, is no JSON, is the JSON null, or is an object
\* with a category member.
Labels == {"yanfa", "xingzheng", "geren", "qita", "unlisted"}
Responses ==
    {[kind |-> "error", label |-> "none"], [kind |-> "empty", label |-> "none"],
     [kind |-> "garbage", label |-> "none"], [kind |-> "null", label |-> "none"]}
    \cup {[kind |-> "object", label |-> l] : l \in Labels}

\* The switch over result.category.
CategoryOf(categoryStr) ==
    CASE categoryStr = "yanfa" -> "RESEARCH"
      [] categoryStr = "xingzheng" -> "ADMIN"
      [] categoryStr = "geren" -> "PERSONAL"
      [] OTHER -> "OTHER"

\* try { ... JSON.parse(response.text || '{}') ... switch } catch { OTHER }
categorizeTask(resp) ==
    CASE resp.kind = "error" -> "OTHER"                  \* the request threw
      [] resp.kind = "garbage" -> "OTHER"                \* JSON.parse threw
      [] resp.kind = "null" -> "OTHER"                   \* result.category threw
      [] resp.kind = "empty" -> CategoryOf("undefined")  \* '{}' has no category
      [] OTHER -> CategoryOf(resp.label)

----------------------------------------------------------------------------
(* What the user and the environment can supply *)

\* TaskForm: the content field, new Date(`${date}T${time}`) (Invalid when a
\* field was cleared) and the repeat-day checkboxes.
FormContents == {"", "Submit report"}
FormDates == {Due, NaN}
FormRepeatDays == {<< >>, <<1, 3>>, <<1>>}

\* seen is the tasks binding of the render whose handleAddTask was called.
NoAdd == [content |-> "", date |-> NaN, repeatDays |-> << >>, seen |-> << >>, busy |-> FALSE]

\* Collections an earlier process left under the storage key: a task with its
\* reminders disabled (the reserved isActive flag), and a task added the week
\* before to recur on Mondays and Wednesdays at 09:00.
SavedDisabled ==
    << [id |-> 0, content |-> "Disabled", remindTime |-> toISOString(Due),
        repeatDays |-> << >>, category |-> "OTHER", isActive |-> FALSE,
        isCompleted |-> FALSE, createdAt |-> Due - WeekMs - HourMs] >>
SavedWeekly ==
    << [id |-> 0, content |-> "Weekly", remindTime |-> toISOString(Due - WeekMs),
        repeatDays |-> <<1, 3>>, category |-> "RESEARCH", isActive |-> TRUE,
        isCompleted |-> FALSE, createdAt |-> Due - WeekMs - HourMs] >>

\* What the process finds: the collection the previous process held, and the storage.
Histories ==
    {[mem |-> << >>, storage |-> Missing],
     [mem |-> << >>, storage |-> Corrupt],
     [mem |-> SavedDisabled, storage |-> Stringify(SavedDisabled)],
     [mem |-> SavedWeekly, storage |-> Stringify(SavedWeekly)]}
\* The page is opened a second and a half before the due instant, or a second
\* and a half before the end of its window.
StartTimes == {Due - PollPeriod - Granule, Due + WindowMs - PollPeriod - Granule}
Permissions == {"default", "granted"}
AllIds == 0..MaxTasks

----------------------------------------------------------------------------
(* The state machine *)

Init ==
    /\ now \in StartTimes
    /\ pc = "closed"
    /\ tasks = << >>
    /\ queued = << >>
    /\ \E h \in Histories : storage = h.storage /\ memAtClose = h.mem
    /\ isAdding = FALSE
    /\ pending = NoAdd
    /\ nextId = 1
    /\ flips = [i \in AllIds |-> 0]
    /\ removed = {}
    /\ gone = {}
    /\ captured = << >>
    /\ nextFire = 0
    /\ sinceScan = 0
    /\ notifiedTasks = {}
    /\ permission \in Permissions
    /\ asked = FALSE
    /\ shown = {}
    /\ skipped = {}
    /\ justScanned = FALSE
    /\ justAdded = "no"
    /\ awake = 0

\* Mutant: the interval keeps the callback of the render before.
Captured_Stale(prev, next) == prev

\* useEffect(..., [tasks]): the new interval's checkTasks closes over the new tasks.
Captured(prev, next) == next

\* The save effect and the scheduler effect, which run after every render
\* that changed tasks: setItem(JSON.stringify(tasks)), clearInterval, setInterval.
Commit(ts) ==
    /\ tasks' = ts
    /\ storage' = Stringify(ts)
    /\ captured' = Captured(tasks, ts)
    /\ nextFire' = now + PollPeriod

\* The page is opened: the first render (tasks = []) and its effects, in order:
\* the load effect, the save effect, requestPermission, the interval.
Start ==
    /\ pc = "closed"
    /\ IF storage.kind = "text"
       THEN pc' = "hydrating" /\ queued' = Parse(storage)
       ELSE pc' = "running" /\ queued' = << >>
    /\ Commit(<< >>)
    /\ asked' = (permission = "default")
    /\ sinceScan' = 0
    /\ notifiedTasks' = {}
    /\ isAdding' = FALSE
    /\ pending' = NoAdd
    /\ shown' = {}
    /\ skipped' = {}
    /\ justScanned' = FALSE
    /\ justAdded' = "no"
    /\ UNCHANGED <<now, memAtClose, nextId, removed, gone, flips, permission, awake>>

\* The render the load effect's setTasks asked for, and its effects.
Hydrate ==
    /\ pc = "hydrating"
    /\ pc' = "running"
    /\ Commit(queued)
    /\ queued' = << >>
    /\ memAtClose' = << >>
    /\ UNCHANGED <<now, isAdding, pending, nextId, removed, gone, flips,
                   sinceScan, notifiedTasks, permission, asked, shown, skipped, awake>>
    /\ justScanned' = FALSE
    /\ justAdded' = "no"

\* The page is closed or reloaded: the process state is gone, the storage stays.
Close ==
    /\ pc = "running"
    /\ pc' = "closed"
    /\ memAtClose' = tasks
    /\ tasks' = << >>
    /\ captured' = << >>
    /\ isAdding' = FALSE
    /\ pending' = NoAdd
    /\ notifiedTasks' = {}
    /\ asked' = FALSE
    /\ nextFire' = 0
    /\ sinceScan' = 0
    /\ shown' = {}
    /\ skipped' = {}
    /\ justScanned' = FALSE
    /\ justAdded' = "no"
    /\ UNCHANGED <<now, queued, storage, nextId, removed, gone, flips, permission, awake>>

\* The user answers the permission prompt.
Answer(p) ==
    /\ pc = "running"
    /\ asked
    /\ permission' = p
    /\ asked' = FALSE
    /\ UNCHANGED <<now, pc, tasks, queued, storage, memAtClose,
                   isAdding, pending, nextId, removed, gone, captured, flips, nextFire, sinceScan, notifiedTasks,
                   shown, skipped, awake>>
    /\ justScanned' = FALSE
    /\ justAdded' = "no"

\* TaskForm.handleSubmit and the synchronous part of App.handleAddTask.
handleSubmit(content, date, repeatDays) ==
    /\ pc = "running"
    /\ ~isAdding
    /\ nextId <= MaxTasks
    /\ awake <= MaxAddAwake
    /\ IF content = ""
       THEN UNCHANGED <<isAdding, pending>>
       ELSE /\ isAdding' = TRUE
            /\ pending' = [content |-> content, date |-> date,
                           repeatDays |-> repeatDays, seen |-> tasks, busy |-> TRUE]
    /\ UNCHANGED <<now, pc, tasks, queued, storage, memAtClose,
                   nextId, removed, gone, captured, flips, nextFire, sinceScan, notifiedTasks, permission, asked,
                   shown, skipped, awake>>
    /\ justScanned' = FALSE
    /\ justAdded' = "no"

\* The task handleAddTask builds once categorizeTask has answered.
NewTask(id, add, category, t) ==
    [id |-> id, content |-> add.content, remindTime |-> toISOString(add.date),
     repeatDays |-> add.repeatDays, category |-> category, isActive |-> TRUE,
     isCompleted |-> FALSE, createdAt |-> t]

\* Mutant: the task is appended to the collection of the render that submitted it.
Appended_ToSeen(prev, seen, task) == Append(seen, task)

\* setTasks(prev => [...prev, newTask])
Appended(prev, seen, task) == Append(prev, task)

\* The rest of handleAddTask, after the await. date.toISOString() throws a
\* RangeError on an Invalid Date: the function ends there, after randomUUID().
handleAddTask(resp) ==
    /\ pc = "running"
    /\ pending.busy
    /\ awake <= MaxAddAwake
    /\ pending' = NoAdd
    /\ nextId' = nextId + 1
    /\ IF pending.date = NaN
       THEN /\ UNCHANGED <<tasks, storage, captured, nextFire, isAdding>>
            /\ justAdded' = "no"
       ELSE /\ Commit(Appended(tasks, pending.seen,
                               NewTask(nextId, pending, categorizeTask(resp), now)))
            /\ isAdding' = FALSE
            /\ justAdded' = IF pending.seen = tasks THEN "same" ELSE "changed"
    /\ UNCHANGED <<now, pc, queued, memAtClose, flips, removed, gone, sinceScan,
                   notifiedTasks, permission, asked, shown, skipped, awake>>
    /\ justScanned' = FALSE

\* Mutant: the task is marked completed instead of flipped.
Toggled_SetsTrue(ts, id) ==
    [i \in 1..Len(ts) |->
        IF ts[i].id = id THEN [ts[i] EXCEPT !.isCompleted = TRUE] ELSE ts[i]]

\* prev.map(t => t.id === id ? { ...t, isCompleted: !t.isCompleted } : t)
Toggled(ts, id) ==
    [i \in 1..Len(ts) |->
        IF ts[i].id = id THEN [ts[i] EXCEPT !.isCompleted = ~ts[i].isCompleted] ELSE ts[i]]

\* A row of the list is clicked: a task of the collection, or (a second click on
\* a row being removed) one already deleted.
Clickable == Ids(tasks) \cup removed

toggleTask(id) ==
    /\ pc = "running"
    /\ id \in Clickable
    /\ Commit(Toggled(tasks, id))
    /\ flips' = IF id \in Ids(tasks) THEN [flips EXCEPT ![id] = (flips[id] + 1) % 2] ELSE flips
    /\ UNCHANGED <<now, pc, queued, memAtClose, isAdding, pending,
                   nextId, removed, gone, sinceScan, notifiedTasks, permission, asked, shown, skipped, awake>>
    /\ justScanned' = FALSE
    /\ justAdded' = "no"

\* prev.filter(t => t.id !== id)
Deleted(ts, id) ==
    LET Keep(t) == t.id # id
    IN  SelectSeq(ts, Keep)

deleteTask(id) ==
    /\ pc = "running"
    /\ id \in Clickable
    /\ Commit(Deleted(tasks, id))
    /\ flips' = [flips EXCEPT ![id] = 0]
    /\ removed' = removed \cup {id}
    /\ gone' = gone \cup {tasks[i] : i \in {j \in 1..Len(tasks) : tasks[j].id = id}}
    /\ UNCHANGED <<now, pc, queued, memAtClose, isAdding, pending,
                   nextId, sinceScan, notifiedTasks, permission, asked, shown, skipped,
                   awake>>
    /\ justScanned' = FALSE
    /\ justAdded' = "no"

\* The interval fires: one scan of the collection.
Poll ==
    /\ pc = "running"
    /\ now >= nextFire
    /\ LET res == checkTasks(captured, now, permission,
                             [notified |-> notifiedTasks, shown |-> shown])
       IN  /\ notifiedTasks' = res.notified
           /\ shown' = res.shown
           /\ skipped' = skipped \cup
                 {[id |-> k[1], at |-> now] :
                    k \in {x \in res.notified \ notifiedTasks :
                             \A n \in res.shown \ shown : n.id # x[1]}}
    /\ justScanned' = TRUE
    /\ justAdded' = "no"
    /\ nextFire' = now + PollPeriod
    /\ sinceScan' = 0
    /\ UNCHANGED <<now, pc, tasks, queued, storage, memAtClose,
                   isAdding, pending, nextId, removed, gone, captured, flips, permission, asked, awake>>

\* Time passes; while the process runs, a due timer fires before more time passes.
Elapse ==
    /\ pc # "hydrating"
    /\ awake < MaxAwake
    /\ pc = "running" => now < nextFire
    /\ now' = IF pc = "running" THEN Min(now + Granule, nextFire) ELSE now + Granule
    /\ sinceScan' = IF pc = "running" THEN Min(sinceScan + (now' - now), GapCap) ELSE 0
    /\ awake' = awake + 1
    /\ UNCHANGED <<pc, tasks, queued, storage, memAtClose, isAdding,
                   pending, nextId, removed, gone, captured, flips, nextFire, notifiedTasks, permission, asked,
                   shown, skipped>>
    /\ justScanned' = FALSE
    /\ justAdded' = "no"

Next ==
    \/ Start
    \/ Hydrate
    \/ Close
    \/ \E p \in {"granted", "denied"} : Answer(p)
    \/ \E c \in FormContents, d \in FormDates, r \in FormRepeatDays : handleSubmit(c, d, r)
    \/ \E resp \in Responses : handleAddTask(resp)
    \/ \E id \in AllIds : toggleTask(id)
    \/ \E id \in AllIds : deleteTask(id)
    \/ Poll
    \/ Elapse

Spec == Init /\ [][Next]_vars

----------------------------------------------------------------------------
(* Vocabulary of the properties *)

TimeOf(task) == DateParse(task.remindTime)
Late(task) == now - TimeOf(task)
InsideWindow(task) == Late(task) >= 0 /\ Late(task) < WindowMs
OneTime(task) == task.repeatDays = << >>
Live(task) == task.isActive /\ ~task.isCompleted
Days(task) == {task.repeatDays[i] : i \in 1..Len(task.repeatDays)}
KeyOf(task) == <<task.id, TimeOf(task)>>
DayOf(t) == t \div DayMs
SameMinuteOfDay(t, u) == getHours(t) = getHours(u) /\ getMinutes(t) = getMinutes(u)
For(S, id) == {n \in S : n.id = id}
Today(S, id) == {n \in S : n.id = id /\ DayOf(n.at) = DayOf(now)}
NoteFor(task) == [id |-> task.id, body |-> task.content, at |-> now]
\* The task is due at this poll and its occurrence has not been recorded yet.
FirstDue(task) ==
    /\ Live(task)
    /\ InsideWindow(task)
    /\ KeyOf(task) \notin notifiedTasks
    /\ \/ OneTime(task)
       \/ getDay(now) \in Days(task) /\ SameMinuteOfDay(now, TimeOf(task))
Scanned == pc = "running" /\ justScanned

----------------------------------------------------------------------------
(* C1 *)

\* C1, as claimed: for a one-time task that is active and not completed, the
\* first poll inside the window 0 >= remindTime - now > -60 s emits its
\* notification.
C1_FirstPollNotifies ==
    [][Poll => \A i \in 1..Len(tasks) :
            (OneTime(tasks[i]) /\ FirstDue(tasks[i]))
                => NoteFor(tasks[i]) \in shown']_vars

\* C1, amended: within one process, a one-time task gets at most one
\* notification; the first poll at which it is due records the occurrence and
\* emits the notification exactly when permission is granted at that poll, and
\* no other poll emits one for it.
C1_OncePerProcess ==
    /\ [](\A i \in 1..Len(tasks) :
            OneTime(tasks[i]) => Cardinality(For(shown, tasks[i].id)) <= 1)
    /\ [][Poll => \A i \in 1..Len(tasks) : OneTime(tasks[i]) =>
            LET t == tasks[i]
                emits == FirstDue(t) /\ permission = "granted"
            IN  /\ FirstDue(t) => KeyOf(t) \in notifiedTasks'
                /\ emits => For(shown', t.id) = For(shown, t.id) \cup {NoteFor(t)}
                /\ ~emits => For(shown', t.id) = For(shown, t.id)]_vars

\* A one-time task was notified, and the process has polled again after its window closed.
C1_Witness ==
    /\ Scanned
    /\ \E i \in 1..Len(tasks) :
          /\ OneTime(tasks[i]) /\ Live(tasks[i])
          /\ Late(tasks[i]) >= WindowMs
          /\ For(shown, tasks[i].id) # {}

----------------------------------------------------------------------------
(* C2 *)

\* C2, as claimed: a recurring task that is active and not completed is
\* notified on every day whose weekday is in repeatDays, at a poll in its
\* stored hour:minute, and on no other day.
C2_EveryQualifyingDay ==
    [][Poll => \A i \in 1..Len(tasks) :
            (~OneTime(tasks[i]) /\ Live(tasks[i]) /\ permission = "granted"
             /\ For(skipped, tasks[i].id) = {})
            => IF getDay(now) \in Days(tasks[i])
                  /\ SameMinuteOfDay(now, TimeOf(tasks[i]))
               THEN Today(shown', tasks[i].id) # {}
               ELSE Today(shown', tasks[i].id) = {}]_vars

----------------------------------------------------------------------------
(* C3 *)

\* C3: every notification of a recurring task is emitted on a weekday in
\* repeatDays, at a poll in the hour and minute of its remindTime, and is the
\* only one the process emits for it that calendar day.
C3_RecurringOnlyWhenDue ==
    [][Poll => \A n \in shown' \ shown :
            \E i \in 1..Len(tasks) :
                /\ tasks[i].id = n.id
                /\ n.at = now
                /\ ~OneTime(tasks[i]) =>
                      /\ getDay(now) \in Days(tasks[i])
                      /\ SameMinuteOfDay(now, TimeOf(tasks[i]))
                      /\ Today(shown, n.id) = {}]_vars

\* A recurring task was notified, and a later poll of the same day left it at that.
C3_Witness ==
    /\ Scanned
    /\ \E i \in 1..Len(tasks) :
          /\ ~OneTime(tasks[i]) /\ Live(tasks[i])
          /\ \E n \in Today(shown, tasks[i].id) : n.at < now
          /\ Cardinality(For(shown, tasks[i].id)) = 1

----------------------------------------------------------------------------
(* C4 *)

\* C4: no poll emits a notification for a task that is completed or not active
\* at that poll.
C4_OnlyLiveTasks ==
    [][Poll => \A n \in shown' \ shown :
            \E i \in 1..Len(tasks) :
                tasks[i].id = n.id /\ tasks[i].isActive /\ ~tasks[i].isCompleted]_vars

\* A poll has just run with permission granted while a completed task and a
\* disabled task were inside their windows, and neither was notified.
C4_Witness ==
    /\ Scanned
    /\ permission = "granted"
    /\ \E i, j \in 1..Len(tasks) :
          /\ tasks[i].isCompleted /\ tasks[i].isActive /\ InsideWindow(tasks[i])
          /\ ~tasks[j].isActive /\ ~tasks[j].isCompleted /\ InsideWindow(tasks[j])
          /\ For(shown, tasks[i].id) = {} /\ For(shown, tasks[j].id) = {}

----------------------------------------------------------------------------
(* C5 *)

----------------------------------------------------------------------------
(* C6 *)

\* C6: a poll at which a task is due while permission is not granted emits
\* nothing for it and records its occurrence; and no poll emits a notification
\* for an occurrence recorded that way, whatever the permission has become.
C6_DeniedConsumes ==
    [][Poll => \A i \in 1..Len(tasks) :
            LET t == tasks[i]
            IN  /\ (FirstDue(t) /\ permission # "granted")
                     => /\ KeyOf(t) \in notifiedTasks'
                        /\ For(shown', t.id) = For(shown, t.id)
                /\ For(skipped, t.id) # {}
                     => For(shown', t.id) = For(shown, t.id)]_vars

\* Permission was granted after an occurrence was recorded without a
\* notification, and a later poll inside the window has emitted nothing for it.
C6_Witness ==
    /\ Scanned
    /\ permission = "granted"
    /\ \E i \in 1..Len(tasks) :
          /\ Live(tasks[i]) /\ InsideWindow(tasks[i])
          /\ \E k \in For(skipped, tasks[i].id) : k.at < now
          /\ For(shown, tasks[i].id) = {}

----------------------------------------------------------------------------
(* C7 *)

\* C7, as claimed: while startup is under way the saved record is never
\* replaced by an empty collection, and the collection a restart hydrates is the
\* one the previous process held.
C7_RestartKeepsCollection ==
    /\ [](pc = "hydrating" => (queued = << >> \/ storage # Stringify(<< >>)))
    /\ [][(pc = "hydrating" /\ pc' = "running") => tasks' = memAtClose]_vars

----------------------------------------------------------------------------
(* C8 *)

OtherFields == {"id", "content", "remindTime", "repeatDays", "category", "isActive", "createdAt"}

\* C8: toggleTask(id) flips isCompleted of the task with that id and changes
\* nothing else, so a task's isCompleted is its initial value (false) flipped
\* once per toggle; deleteTask of an id that is not in the collection leaves the
\* collection as it was.
C8_ToggleAndDelete ==
    /\ [](\A i \in 1..Len(tasks) : tasks[i].isCompleted = (flips[tasks[i].id] = 1))
    /\ [][\A id \in AllIds :
            /\ toggleTask(id) =>
                  /\ Len(tasks') = Len(tasks)
                  /\ \A i \in 1..Len(tasks) :
                        /\ \A f \in OtherFields : tasks'[i][f] = tasks[i][f]
                        /\ tasks'[i].isCompleted = (tasks[i].isCompleted # (tasks[i].id = id))
            /\ (deleteTask(id) /\ id \notin Ids(tasks)) => tasks' = tasks]_vars

\* A task that was toggled an odd number of times stands completed before one
\* that is not.
C8_Witness ==
    /\ pc = "running"
    /\ Len(tasks) = 2
    /\ tasks[1].isCompleted /\ flips[tasks[1].id] = 1
    /\ ~tasks[2].isCompleted

----------------------------------------------------------------------------
(* C9 *)

\* C9, as claimed: when the handleAddTask call of an accepted submission ends,
\* one task has been appended, its category is one of the four, and the busy
\* flag is cleared.
C9_AddAlwaysCompletes ==
    [][(pending.busy /\ ~pending'.busy /\ pc' = "running") =>
            /\ Len(tasks') = Len(tasks) + 1
            /\ SubSeq(tasks', 1, Len(tasks)) = tasks
            /\ tasks'[Len(tasks')].category \in Categories
            /\ ~isAdding']_vars

----------------------------------------------------------------------------
(* C10 *)

\* C10, as claimed: while the application runs, no
\* more than one timer period passes without a scan.
C10_ScanEveryPeriod == pc = "running" => sinceScan <= PollPeriod

----------------------------------------------------------------------------
(* C11 *)

\* C11: the step that ends a pending add loses no task and no change made
\* while categorizeTask was awaited: the collection as it stands at that step
\* is kept, in order, and when the add goes through the result is that
\* collection with the one new task at its end.
C11_AddKeepsMutations ==
    [][\A resp \in Responses : handleAddTask(resp) =>
            /\ Len(tasks') >= Len(tasks)
            /\ SubSeq(tasks', 1, Len(tasks)) = tasks
            /\ pending.date # NaN =>
                  /\ Len(tasks') = Len(tasks) + 1
                  /\ tasks'[Len(tasks')].id \notin Ids(tasks)
                  /\ tasks'[Len(tasks')].content = pending.content
                  /\ storage' = Stringify(tasks')]_vars

\* An add has just gone through after a task was toggled during the wait: the
\* toggled task stands completed before the new one.
C11_Witness ==
    /\ pc = "running"
    /\ justAdded = "changed"
    /\ Len(tasks) = 2
    /\ tasks[1].isCompleted
    /\ ~tasks[2].isCompleted
    /\ tasks[2].id = nextId - 1

----------------------------------------------------------------------------
(* C12 *)

\* C12: the interval's callback always holds the collection of the latest
\* store mutation; a scan emits nothing for a task that has been deleted or is
\* not in the collection, and it sees every task of the collection that is due,
\* a task just added included: it records the occurrence and, permission
\* granted, emits its notification.
C12_ScanSeesLatest ==
    /\ [](captured = tasks)
    /\ [][Poll =>
            /\ \A n \in shown' \ shown : n.id \in Ids(tasks) /\ n.id \notin removed
            /\ \A i \in 1..Len(tasks) : FirstDue(tasks[i]) =>
                  /\ KeyOf(tasks[i]) \in notifiedTasks'
                  /\ permission = "granted" => NoteFor(tasks[i]) \in shown']_vars

\* A poll has just run, with permission granted, inside the window of a live
\* one-time task that had been added and was deleted before it was ever
\* notified, and nothing was emitted or recorded for it.
C12_Witness ==
    /\ Scanned
    /\ permission = "granted"
    /\ \E t \in gone :
          /\ t.id = nextId - 1
          /\ Live(t) /\ OneTime(t) /\ InsideWindow(t)
          /\ KeyOf(t) \notin notifiedTasks
          /\ For(shown, t.id) = {} /\ For(skipped, t.id) = {}

============================================================================
